---- MODULE Spec2Model ----
(***************************************************************************)
(* Retail-Analytics-Copilot: the hybrid question-answering workflow of     *)
(* agent/graph_hybrid.py (router, retriever, planner, sql_generator,       *)
(* executor, repair, synthesizer over one AgentState record), together     *)
(* with the SQL validator, the SQLite tool and the retriever it calls.     *)
(* Texts are TLA+ strings; Python's string operations are modelled on      *)
(* them character by character.                                            *)
(***************************************************************************)
EXTENDS Integers, Sequences, FiniteSets, TLC

(***************************************************************************)
(* Python string primitives                                                *)
(***************************************************************************)

\* s[i-1:i], the i-th character of s (1-based), "" outside the string
Ch(s, i) == IF i >= 1 /\ i <= Len(s) THEN SubSeq(s, i, i) ELSE ""

Uppers == "ABCDEFGHIJKLMNOPQRSTUVWXYZ"
Lowers == "abcdefghijklmnopqrstuvwxyz"
Digits == "0123456789"

IsUpper(c) == \E i \in 1..Len(Uppers) : Ch(Uppers, i) = c
IsLower(c) == \E i \in 1..Len(Lowers) : Ch(Lowers, i) = c
IsDigit(c) == \E i \in 1..Len(Digits) : Ch(Digits, i) = c

\* str.lower() on one character
LowerCh(c) ==
    IF IsUpper(c)
    THEN Ch(Lowers, CHOOSE i \in 1..Len(Uppers) : Ch(Uppers, i) = c)
    ELSE c

RECURSIVE StrLower(_)
\* str.lower()
StrLower(s) ==
    IF Len(s) = 0 THEN ""
    ELSE LowerCh(Ch(s, 1)) \o StrLower(SubSeq(s, 2, Len(s)))

\* str.isspace() on one character
IsSpace(c) == c \in {" ", "\n", "\t", "\r"}

RECURSIVE LStrip(_)
LStrip(s) ==
    IF Len(s) > 0 /\ IsSpace(Ch(s, 1)) THEN LStrip(SubSeq(s, 2, Len(s))) ELSE s

RECURSIVE RStrip(_)
RStrip(s) ==
    IF Len(s) > 0 /\ IsSpace(Ch(s, Len(s))) THEN RStrip(SubSeq(s, 1, Len(s) - 1)) ELSE s

\* str.strip()
Strip(s) == RStrip(LStrip(s))

\* s.startswith(p) at offset i (1-based)
MatchAt(s, i, p) ==
    /\ i >= 1
    /\ i + Len(p) - 1 <= Len(s)
    /\ SubSeq(s, i, i + Len(p) - 1) = p

\* Python's  p in s
StrIn(p, s) == \E i \in 1..(Len(s) + 1) : MatchAt(s, i, p)

RECURSIVE ReplaceFrom(_, _, _, _)
ReplaceFrom(s, i, old, new) ==
    IF i > Len(s) THEN ""
    ELSE IF MatchAt(s, i, old)
         THEN new \o ReplaceFrom(s, i + Len(old), old, new)
         ELSE Ch(s, i) \o ReplaceFrom(s, i + 1, old, new)

\* str.replace(old, new) for a non-empty old: leftmost, non-overlapping
StrReplace(s, old, new) == ReplaceFrom(s, 1, old, new)

\* A TLA+ string cannot hold the backquote character: the texts below write
\* it as BackQuote, and no modelled text uses that character for itself.
BackQuote == "~"

\* ASCII order of the characters that occur in the modelled texts (the
\* backquote, 0x60, stands between "_" and "a")
Ascii == "\t\n\r !\"%'()*+,-./0123456789:;<=>?ABCDEFGHIJKLMNOPQRSTUVWXYZ[]_~abcdefghijklmnopqrstuvwxyz|"

CharRank(c) == CHOOSE i \in 1..Len(Ascii) : Ch(Ascii, i) = c

RECURSIVE StrLess(_, _)
\* Python's  a < b  on str
StrLess(a, b) ==
    IF Len(b) = 0 THEN FALSE
    ELSE IF Len(a) = 0 THEN TRUE
    ELSE IF Ch(a, 1) = Ch(b, 1)
         THEN StrLess(SubSeq(a, 2, Len(a)), SubSeq(b, 2, Len(b)))
         ELSE CharRank(Ch(a, 1)) < CharRank(Ch(b, 1))

RECURSIVE Sorted(_)
\* sorted(S) for a set S of str
Sorted(S) ==
    IF S = {} THEN <<>>
    ELSE LET m == CHOOSE x \in S : \A y \in S \ {x} : StrLess(x, y)
         IN <<m>> \o Sorted(S \ {m})

RECURSIVE Join(_, _)
\* sep.join(parts)
Join(sep, parts) ==
    IF Len(parts) = 0 THEN ""
    ELSE IF Len(parts) = 1 THEN parts[1]
    ELSE parts[1] \o sep \o Join(sep, Tail(parts))

RECURSIVE SplitFrom(_, _, _, _)
SplitFrom(s, i, start, sep) ==
    IF i > Len(s) THEN << SubSeq(s, start, Len(s)) >>
    ELSE IF MatchAt(s, i, sep)
         THEN << SubSeq(s, start, i - 1) >> \o SplitFrom(s, i + Len(sep), i + Len(sep), sep)
         ELSE SplitFrom(s, i + 1, start, sep)

\* str.split(sep) for a non-empty sep
Split(s, sep) == SplitFrom(s, 1, 1, sep)

(***************************************************************************)
(* Regular-expression primitives (Python re)                               *)
(***************************************************************************)

\* \w
IsWord(c) == IsUpper(c) \/ IsLower(c) \/ IsDigit(c) \/ c = "_"

\* \b at the gap before position i
Boundary(s, i) == IsWord(Ch(s, i - 1)) # IsWord(Ch(s, i))

RECURSIVE WordEnd(_, _)
\* first position >= i that holds no \w character: \w* from i ends before it
WordEnd(s, i) == IF IsWord(Ch(s, i)) THEN WordEnd(s, i + 1) ELSE i

RECURSIVE SpaceEnd(_, _)
\* first position >= i that holds no \s character: \s* from i ends before it
SpaceEnd(s, i) == IF IsSpace(Ch(s, i)) THEN SpaceEnd(s, i + 1) ELSE i

\* a literal keyword at i under re.IGNORECASE
MatchAtI(s, i, kw) ==
    /\ i + Len(kw) - 1 <= Len(s)
    /\ StrLower(SubSeq(s, i, i + Len(kw) - 1)) = StrLower(kw)

RECURSIVE CamelToSpaced(_, _)
\* re.sub(r'([a-z])([A-Z])', r'\1 \2', s) from position i on
CamelToSpaced(s, i) ==
    IF i > Len(s) THEN ""
    ELSE IF IsLower(Ch(s, i)) /\ IsUpper(Ch(s, i + 1))
         THEN Ch(s, i) \o " " \o Ch(s, i + 1) \o CamelToSpaced(s, i + 2)
         ELSE Ch(s, i) \o CamelToSpaced(s, i + 1)

\* r'\bWITH\b' under re.IGNORECASE, re.search
HasWith(s) ==
    \E i \in 1..Len(s) :
        /\ MatchAtI(s, i, "WITH")
        /\ Boundary(s, i)
        /\ Boundary(s, i + 4)

\* r'\b(\w+)\s+AS\s*\(' under re.IGNORECASE matched at position i: the
\* position of the closing "(" of the match, 0 when there is no match at i.
\* Every quantifier is followed by a character outside its class, so the
\* greedy runs are the only candidates.
CteMatchEnd(s, i) ==
    LET w  == WordEnd(s, i)
        sp == SpaceEnd(s, w)
        p  == SpaceEnd(s, sp + 2)
    IN IF /\ IsWord(Ch(s, i))
          /\ Boundary(s, i)
          /\ sp > w
          /\ MatchAtI(s, sp, "AS")
          /\ Ch(s, p) = "("
       THEN p ELSE 0

RECURSIVE CteFindAll(_, _)
\* re.findall of the CTE pattern from position i on: the group (\w+) of each
\* match, leftmost and non-overlapping
CteFindAll(s, i) ==
    IF i > Len(s) THEN <<>>
    ELSE LET e == CteMatchEnd(s, i)
         IN IF e > 0
            THEN << SubSeq(s, i, WordEnd(s, i) - 1) >> \o CteFindAll(s, e + 1)
            ELSE CteFindAll(s, i + 1)

\* [`"\[]
IsOpenQuote(c) == c \in {BackQuote, "\"", "["}
\* [`"\]]
IsCloseQuote(c) == c \in {BackQuote, "\"", "]"}

RECURSIVE QuotedEnd(_, _)
\* first position >= i holding a closing quote character or past the end:
\* [^`"\]]* from i ends before it
QuotedEnd(s, i) ==
    IF i > Len(s) \/ IsCloseQuote(Ch(s, i)) THEN i ELSE QuotedEnd(s, i + 1)

\* r'\b(?:FROM|JOIN)\s+(?:[`"\[]([^`"\]]+)[`"\]]|(\w+))' under re.IGNORECASE
\* matched at position i: [name |-> m[0] if m[0] else m[1], end |-> last
\* position of the match], end = 0 when there is no match at i
TableMatch(s, i) ==
    LET sp == i + 4
        t  == SpaceEnd(s, sp)
        q  == QuotedEnd(s, t + 1)
        w  == WordEnd(s, t)
    IN IF ~ ( /\ (MatchAtI(s, i, "FROM") \/ MatchAtI(s, i, "JOIN"))
              /\ Boundary(s, i)
              /\ t > sp )
       THEN [name |-> "", end |-> 0]
       ELSE IF IsOpenQuote(Ch(s, t)) /\ q > t + 1 /\ q <= Len(s)
            THEN [name |-> SubSeq(s, t + 1, q - 1), end |-> q]
       ELSE IF w > t
            THEN [name |-> SubSeq(s, t, w - 1), end |-> w - 1]
       ELSE [name |-> "", end |-> 0]

RECURSIVE TableFindAll(_, _)
\* found_tables: re.findall of the table pattern, flattened
TableFindAll(s, i) ==
    IF i > Len(s) THEN <<>>
    ELSE LET m == TableMatch(s, i)
         IN IF m.end > 0
            THEN << m.name >> \o TableFindAll(s, m.end + 1)
            ELSE TableFindAll(s, i + 1)

\* r'\b(\w+)\.(\w+)\b' matched at position i: [alias, column, end], end = 0
\* when there is no match at i
ColumnMatch(s, i) ==
    LET w  == WordEnd(s, i)
        w2 == WordEnd(s, w + 1)
    IN IF /\ IsWord(Ch(s, i))
          /\ Boundary(s, i)
          /\ Ch(s, w) = "."
          /\ w2 > w + 1
       THEN [alias |-> SubSeq(s, i, w - 1), column |-> SubSeq(s, w + 1, w2 - 1), end |-> w2 - 1]
       ELSE [alias |-> "", column |-> "", end |-> 0]

RECURSIVE ColumnFindAll(_, _)
\* found_columns: re.findall of the column pattern
ColumnFindAll(s, i) ==
    IF i > Len(s) THEN <<>>
    ELSE LET m == ColumnMatch(s, i)
         IN IF m.end > 0
            THEN << m.column >> \o ColumnFindAll(s, m.end + 1)
            ELSE ColumnFindAll(s, i + 1)

(***************************************************************************)
(* agent/tools/sqlite_tool.py: the database as the tool sees it            *)
(***************************************************************************)

\* The absent value None
None == "None"

\* The rows of sqlite_master with type = 'table', each with the rows of its
\* PRAGMA table_info (name, type), in the order the database lists them
DbTables == <<
    [name |-> "Orders",        columns |-> << <<"OrderID", "INTEGER">>, <<"OrderDate", "DATETIME">> >>],
    [name |-> "Order Details", columns |-> << <<"OrderID", "INTEGER">>, <<"UnitPrice", "NUMERIC">> >>],
    [name |-> "Products",      columns |-> << <<"ProductID", "INTEGER">>, <<"ProductName", "TEXT">> >>],
    [name |-> "Customers",     columns |-> << <<"CustomerID", "TEXT">>, <<"CompanyName", "TEXT">> >>] >>

\* SQLiteTool.get_all_tables
get_all_tables == [i \in 1..Len(DbTables) |-> DbTables[i].name]

RECURSIVE RenderColumns(_)
RenderColumns(cols) ==
    IF Len(cols) = 0 THEN ""
    ELSE "  - " \o cols[1][1] \o " (" \o cols[1][2] \o ")\n" \o RenderColumns(Tail(cols))

RECURSIVE RenderTables(_, _)
RenderTables(tables, names) ==
    IF Len(tables) = 0 THEN ""
    ELSE (IF Len(names) = 0 \/ \E k \in 1..Len(names) : names[k] = tables[1].name
          THEN "Table: " \o tables[1].name \o "\n" \o RenderColumns(tables[1].columns) \o "\n"
          ELSE "")
         \o RenderTables(Tail(tables), names)

\* SQLiteTool.get_schema(table_names); << >> stands for None and for []
get_schema(table_names) == RenderTables(DbTables, table_names)

(***************************************************************************)
(* agent/tools/sql_validator.py                                            *)
(***************************************************************************)

\* re.match(r'\s*-\s*(\w+)\s*\(', line): the group, None without a match
ColumnLineMatch(line) ==
    LET a == SpaceEnd(line, 1)
        b == SpaceEnd(line, a + 1)
        w == WordEnd(line, b)
        p == SpaceEnd(line, w)
    IN IF Ch(line, a) = "-" /\ w > b /\ Ch(line, p) = "("
       THEN SubSeq(line, b, w - 1) ELSE None

RECURSIVE ExtractLines(_)
ExtractLines(lines) ==
    IF Len(lines) = 0 THEN <<>>
    ELSE (IF MatchAt(Strip(lines[1]), 1, "- ") /\ ColumnLineMatch(lines[1]) # None
          THEN << ColumnLineMatch(lines[1]) >> ELSE <<>>)
         \o ExtractLines(Tail(lines))

\* SQLValidator._extract_columns_from_schema
extract_columns_from_schema(schema_str) == ExtractLines(Split(schema_str, "\n"))

\* SQLValidator._load_schema: self.valid_tables
valid_tables == { StrLower(get_all_tables[i]) : i \in 1..Len(get_all_tables) }

\* SQLValidator._load_schema: self.valid_columns, table -> set of columns
valid_columns ==
    [ t \in valid_tables |->
        LET name == get_all_tables[CHOOSE i \in 1..Len(get_all_tables) :
                                      /\ StrLower(get_all_tables[i]) = t
                                      /\ \A j \in (i + 1)..Len(get_all_tables) :
                                            StrLower(get_all_tables[j]) # t]
            cols == extract_columns_from_schema(get_schema(<< name >>))
        IN { StrLower(cols[k]) : k \in 1..Len(cols) } ]

\* all_columns of _find_similar_columns
all_columns == UNION { valid_columns[t] : t \in valid_tables }

\* The orders in which Python may iterate the set all_columns (the order of a
\* set of str changes from one process to the next with the hash seed)
RECURSIVE Reverse(_)
Reverse(q) == IF Len(q) = 0 THEN <<>> ELSE Reverse(Tail(q)) \o << q[1] >>

ColumnOrders == { Sorted(all_columns), Reverse(Sorted(all_columns)) }

RECURSIVE SelectSimilar(_, _)
SelectSimilar(column, order) ==
    IF Len(order) = 0 THEN <<>>
    ELSE (IF StrIn(column, order[1]) \/ StrIn(order[1], column)
          THEN << order[1] >> ELSE <<>>)
         \o SelectSimilar(column, Tail(order))

max_suggestions == 3

\* SQLValidator._find_similar_columns, iterating all_columns in this order
find_similar_columns(column, order) ==
    LET sugg == SelectSimilar(column, order)
    IN SubSeq(sugg, 1, IF Len(sugg) < max_suggestions THEN Len(sugg) ELSE max_suggestions)

\* the table matched by one of the three strategies of validate_sql
\* a match on the lower-cased name only
TableMatches_exact(clean_table) ==
    LET table_lower == StrLower(clean_table)
    IN \E valid_table \in valid_tables : table_lower = valid_table

TableMatches(clean_table) ==
    LET table_lower    == StrLower(clean_table)
        spaced_table   == StrLower(CamelToSpaced(clean_table, 1))
        table_no_space == StrReplace(table_lower, " ", "")
    IN \E valid_table \in valid_tables :
          \/ table_lower = valid_table
          \/ spaced_table = valid_table
          \/ table_no_space = StrReplace(valid_table, " ", "")

RECURSIVE TableErrors(_, _)
\* the loop over found_tables of validate_sql
TableErrors(found_tables, cte_names) ==
    IF Len(found_tables) = 0 THEN <<>>
    ELSE LET table       == found_tables[1]
             clean_table == Strip(table)
         IN (IF StrLower(clean_table) \in { StrLower(c) : c \in cte_names }
             THEN <<>>
             ELSE IF TableMatches(clean_table) THEN <<>>
             ELSE << "Table '" \o table \o "' does not exist in schema. Valid tables: "
                     \o Join(", ", Sorted(valid_tables)) >>)
            \o TableErrors(Tail(found_tables), cte_names)

RECURSIVE ColumnErrors(_, _)
\* the loop over found_columns of validate_sql
ColumnErrors(found_columns, order) ==
    IF Len(found_columns) = 0 THEN <<>>
    ELSE LET column       == found_columns[1]
             column_lower == StrLower(column)
             suggestions  == find_similar_columns(column_lower, order)
         IN (IF column_lower \in all_columns THEN <<>>
             ELSE IF Len(suggestions) > 0
                  THEN << "Column '" \o column \o "' not found in any table schema. Did you mean: "
                          \o Join(", ", suggestions) \o "?" >>
                  ELSE << "Column '" \o column \o "' not found in any table schema" >>)
            \o ColumnErrors(Tail(found_columns), order)

\* a validator that does not look for WITH clauses
validate_sql_no_cte(sql_query, order) ==
    IF Strip(sql_query) = "" THEN [valid |-> TRUE, errors |-> <<>>]
    ELSE LET errors == TableErrors(TableFindAll(sql_query, 1), {})
                       \o ColumnErrors(ColumnFindAll(sql_query, 1), order)
         IN [valid |-> Len(errors) = 0, errors |-> errors]

\* SQLValidator.validate_sql, with the iteration order of all_columns
validate_sql(sql_query, order) ==
    IF Strip(sql_query) = "" THEN [valid |-> TRUE, errors |-> <<>>]
    ELSE LET all_cte_matches == IF HasWith(sql_query) THEN CteFindAll(sql_query, 1) ELSE <<>>
             cte_names == { all_cte_matches[k] : k \in 1..Len(all_cte_matches) }
             errors == TableErrors(TableFindAll(sql_query, 1), cte_names)
                       \o ColumnErrors(ColumnFindAll(sql_query, 1), order)
         IN [valid |-> Len(errors) = 0, errors |-> errors]

(***************************************************************************)
(* agent/graph_hybrid.py: the deterministic SQL cleaning of                *)
(* sql_generator_node                                                      *)
(***************************************************************************)

RECURSIVE ParenEnd(_, _)
\* first position >= i holding ")" or past the end: [^)]* from i ends before it
ParenEnd(s, i) == IF i > Len(s) \/ Ch(s, i) = ")" THEN i ELSE ParenEnd(s, i + 1)

RECURSIVE DatePartSub(_, _, _, _)
\* re.sub(fn + r"\(([^)]+)\)", "strftime('" + fmt + r"', \1)", s,
\*        flags=re.IGNORECASE) from position i on
DatePartSub(s, i, fn, fmt) ==
    IF i > Len(s) THEN ""
    ELSE LET a == i + Len(fn) + 1
             e == ParenEnd(s, a)
         IN IF MatchAtI(s, i, fn \o "(") /\ e > a /\ e <= Len(s)
            THEN "strftime('" \o fmt \o "', " \o SubSeq(s, a, e - 1) \o ")"
                 \o DatePartSub(s, e + 1, fn, fmt)
            ELSE Ch(s, i) \o DatePartSub(s, i + 1, fn, fmt)

CodeFence == BackQuote \o BackQuote \o BackQuote

\* sql_generator_node, lines 62-69: pred.sql_query to state["sql_query"]
CleanSQL(raw) ==
    LET stripped == Strip(StrReplace(StrReplace(raw, CodeFence \o "sql", ""), CodeFence, ""))
        years    == DatePartSub(stripped, 1, "YEAR", "%Y")
    IN DatePartSub(years, 1, "MONTH", "%m")

(***************************************************************************)
(* agent/rag/retrieval.py                                                  *)
(***************************************************************************)

\* The markdown files glob.glob finds in docs_dir, in the order it lists them
Docs == <<
    [path |-> "docs/policy.md",
     content |-> "# Policy\nReturns in 30 days.\n\n## Shipping\n  Ships in 2 days.\n"],
    [path |-> "docs/calendar.md",
     content |-> "\n## Summer\nJune sale.\n## Winter\nDecember sale.\n"] >>

RECURSIVE Basename(_)
\* os.path.basename
Basename(path) ==
    IF StrIn("/", path) THEN Basename(SubSeq(path, 2, Len(path))) ELSE path

RECURSIVE StripLines(_)
\* [line.strip() for line in lines if line.strip()]
StripLines(lines) ==
    IF Len(lines) = 0 THEN <<>>
    ELSE (IF Strip(lines[1]) # "" THEN << Strip(lines[1]) >> ELSE <<>>)
         \o StripLines(Tail(lines))

RECURSIVE ChunkSections(_, _, _)
\* the loop over enumerate(sections) of _load_and_chunk_docs, from index i on
ChunkSections(filename, sections, i) ==
    IF i >= Len(sections) THEN <<>>
    ELSE LET section == IF i > 0 THEN "## " \o sections[i + 1] ELSE sections[i + 1]
             lines   == StripLines(Split(section, "\n"))
         IN (IF Len(lines) = 0 THEN <<>>
             ELSE << [id      |-> filename \o "::chunk" \o Ch(Digits, i + 1),
                      content |-> Join("\n", lines),
                      source  |-> filename] >>)
            \o ChunkSections(filename, sections, i + 1)

RECURSIVE ChunkDocs(_)
ChunkDocs(files) ==
    IF Len(files) = 0 THEN <<>>
    ELSE LET filename == StrReplace(Basename(files[1].path), ".md", "")
         IN ChunkSections(filename, Split(files[1].content, "\n## "), 0)
            \o ChunkDocs(Tail(files))

\* Retriever._load_and_chunk_docs: self.chunks
chunks == ChunkDocs(Docs)

\* A docs_dir that holds notes.md and notes.md.md: glob's "*.md" finds both
NotesDocs == <<
    [path |-> "docs/notes.md", content |-> "# Notes\nReturns by mail.\n"],
    [path |-> "docs/notes.md.md", content |-> "# Notes\nReturns in store.\n"] >>

\* Largest cosine similarity of the model, in units of 1/MaxSim
MaxSim == 2

\* The vectors cosine_similarity can return for a query: one similarity in
\* 0..MaxSim per chunk (term weights are non-negative, so is the cosine)
Similarities == [1..Len(chunks) -> 0..MaxSim]

\* The results numpy's argsort can give for sims: the permutations of the
\* indices that put the similarities in ascending order (the default sort is
\* not stable, so equal similarities may come in any order)
ArgSorts(sims) ==
    { p \in [1..Len(sims) -> 1..Len(sims)] :
        /\ \A i, j \in 1..Len(sims) : i # j => p[i] # p[j]
        /\ \A i \in 1..(Len(sims) - 1) : sims[p[i]] <= sims[p[i + 1]] }

\* a[-k:] for k >= 0 (a[-0:] is all of a)
LastK(a, k) ==
    IF k = 0 \/ k >= Len(a) THEN a ELSE SubSeq(a, Len(a) - k + 1, Len(a))

RECURSIVE PositiveMatches(_, _, _)
\* the loop over top_indices of Retriever.search
PositiveMatches(corpus, top_indices, sims) ==
    IF Len(top_indices) = 0 THEN <<>>
    ELSE LET idx == top_indices[1]
         IN (IF sims[idx] > 0
             THEN << [id      |-> corpus[idx].id,
                      content |-> corpus[idx].content,
                      source  |-> corpus[idx].source,
                      score   |-> sims[idx]] >>
             ELSE <<>>)
            \o PositiveMatches(corpus, Tail(top_indices), sims)

\* Retriever.search on self.chunks = corpus, given the similarities of the
\* query and their argsort
search(corpus, sims, argsort, top_k) ==
    IF Len(corpus) = 0 THEN <<>>
    ELSE PositiveMatches(corpus, Reverse(LastK(argsort, top_k)), sims)

(***************************************************************************)
(* The SQLite engine behind SQLiteTool.execute_query, on the database of   *)
(* DbTables with the view OrderDetails over "Order Details" and one order  *)
(* of 1997: what cursor.execute does with each query                       *)
(***************************************************************************)

SqliteEngine(query) ==
    CASE query = "SELECT o.OrderID FROM Orders o"
           -> [exception |-> None, columns |-> <<"OrderID">>, rows |-> << <<1>> >>]
      [] query = "SELECT COUNT(*) FROM OrderDetails d JOIN Orders o ON d.OrderID = o.OrderID WHERE strftime('%Y', o.OrderDate) = '1997'"
           -> [exception |-> None, columns |-> <<"COUNT(*)">>, rows |-> << <<1>> >>]
      [] query = "SELECT p.Name FROM Products p"
           -> [exception |-> "no such column: p.Name", columns |-> <<>>, rows |-> <<>>]
      [] query = "SELECT Total FROM Orders"
           -> [exception |-> "no such column: Total", columns |-> <<>>, rows |-> <<>>]
      [] query = "SELECT s.OrderID FROM Sales s"
           -> [exception |-> "no such table: Sales", columns |-> <<>>, rows |-> <<>>]
      [] query = "WITH t AS (SELECT 1 AS x) SELECT t.x FROM t"
           -> [exception |-> None, columns |-> <<"x">>, rows |-> << <<1>> >>]
      [] query = ""
           -> [exception |-> None, columns |-> <<>>, rows |-> <<>>]
      \* SQLITE_NOMEM on a host that cannot allocate the blob: sqlite3 raises
      \* MemoryError(), whose str() is empty
      [] query = "SELECT zeroblob(900000000)"
           -> [exception |-> "", columns |-> <<>>, rows |-> <<>>]
      [] OTHER
           -> [exception |-> "near \"" \o SubSeq(query, 1, WordEnd(query, 1) - 1) \o "\": syntax error",
               columns |-> <<>>, rows |-> <<>>]

\* SQLiteTool.execute_query
execute_query(query) ==
    LET r == SqliteEngine(query)
    IN IF r.exception = None
       THEN [columns |-> r.columns, rows |-> r.rows, error |-> None]
       ELSE [columns |-> <<>>, rows |-> <<>>, error |-> r.exception]

\* Python truth value of an optional str
Truthy(x) == x # None /\ x # ""

(***************************************************************************)
(* The oracle (dspy modules) and the batch input                           *)
(***************************************************************************)

\* The question records of the batch file
Questions == {
    [question |-> "What is the return policy?", format_hint |-> "str"],
    [question |-> "Total revenue in 1997",      format_hint |-> "float"] }

\* The texts CoT_Router may return as pred.strategy
RouterOutputs ==
    { "sql", "rag", "hybrid", "SQL", " Hybrid\n", "RAG ",
      "sql and rag", "RAG+SQL", "unknown", "" }

\* The texts CoT_SQL may return as pred.sql_query
GeneratedSQL ==
    { "SELECT o.OrderID FROM Orders o",
      CodeFence \o "sql\nSELECT COUNT(*) FROM OrderDetails d JOIN Orders o ON d.OrderID = o.OrderID WHERE YEAR(o.OrderDate) = '1997'\n" \o CodeFence,
      "SELECT p.Name FROM Products p",
      "SELECT Total FROM Orders",
      "SELECT s.OrderID FROM Sales s",
      "WITH t AS (SELECT 1 AS x) SELECT t.x FROM t",
      "SELECT zeroblob(900000000)",
      "" }

\* The (final_answer, short_explanation) pairs CoT_Synthesizer may return
SynthOutputs ==
    { [final_answer |-> "30 days", short_explanation |-> "From the policy."],
      [final_answer |-> "1",       short_explanation |-> "From the query."] }

(***************************************************************************)
(* agent/graph_hybrid.py: nodes.  Each operator gives the state after the  *)
(* node's partial update is merged into the state it was given.            *)
(***************************************************************************)

\* router_node testing for "sql" alone first
router_strategy_sql_first(text) ==
    LET strategy == Strip(StrLower(text))
    IN IF StrIn("sql", strategy) THEN "sql"
       ELSE IF StrIn("sql", strategy) /\ StrIn("rag", strategy) THEN "hybrid"
       ELSE "rag"

\* router_node, lines 31-37: the strategy for the oracle's text
router_strategy(text) ==
    LET strategy == Strip(StrLower(text))
    IN IF StrIn("sql", strategy) /\ StrIn("rag", strategy) THEN "hybrid"
       ELSE IF StrIn("sql", strategy) THEN "sql"
       ELSE "rag"

\* the strategy of each text the oracle may return, computed once per text
RouterStrategies ==
    { [pred_strategy |-> p, strategy |-> router_strategy(p)] : p \in RouterOutputs }

router_node(st, text) ==
    [st EXCEPT !.strategy =
        (CHOOSE r \in RouterStrategies : r.pred_strategy = text).strategy]

retriever_node(st, sims, argsort) ==
    [st EXCEPT !.context = search(chunks, sims, argsort, 3)]

\* a planner that decides the strategy anew
planner_node_restrategy(st) == [st EXCEPT !.strategy = "sql"]

planner_node(st) == st

\* sql_generator_node on the oracle's texts, computed once per text and
\* iteration order: the cleaned query of lines 62-69 and the validator's
\* result of line 74
GeneratorResults ==
    { [pred_sql_query    |-> g,
       order             |-> order,
       sql_query         |-> CleanSQL(g),
       validation_result |-> validate_sql(CleanSQL(g), order)] :
      g \in GeneratedSQL, order \in ColumnOrders }

GeneratorResult(g, order) ==
    CHOOSE r \in GeneratorResults : r.pred_sql_query = g /\ r.order = order

\* db.get_schema() of line 56: the text does not change between calls
db_schema == get_schema(<<>>)

sql_generator_node(st, pred_sql_query, order) ==
    LET schema            == db_schema
        sql_query         == GeneratorResult(pred_sql_query, order).sql_query
        validation_result == GeneratorResult(pred_sql_query, order).validation_result
    IN IF ~ validation_result.valid
       THEN [st EXCEPT !.sql_query = sql_query,
                       !.schema    = schema,
                       !.errors    = validation_result.errors]
       ELSE [st EXCEPT !.sql_query = sql_query,
                       !.schema    = schema]

executor_node(st) ==
    LET result == execute_query(st.sql_query)
    IN IF Truthy(result.error)
       THEN [st EXCEPT !.sql_result = result, !.errors = << result.error >>]
       ELSE [st EXCEPT !.sql_result = result]

\* tables of synthesizer_node, line 124
CitableTables == << "Orders", "Order Details", "Products", "Customers" >>

RECURSIVE TableCitations(_, _)
\* the loop over tables of synthesizer_node
TableCitations(tables, sql_query) ==
    IF Len(tables) = 0 THEN <<>>
    ELSE LET t == tables[1]
         IN (IF \/ StrIn(StrLower(t), StrLower(sql_query))
                \/ StrIn(StrLower(StrReplace(t, " ", "")),
                         StrReplace(StrLower(sql_query), " ", ""))
             THEN << t >> ELSE <<>>)
            \o TableCitations(Tail(tables), sql_query)

\* the table citations of each query sql_generator_node can leave in the
\* state, computed once per query
TableCitationsOf ==
    { [sql_query |-> r.sql_query, citations |-> TableCitations(CitableTables, r.sql_query)] :
      r \in GeneratorResults }

\* t occurs in sql_query case-insensitively, or after the spaces are removed
\* from both
OccursIn(t, text) ==
    \E low \in { StrLower(text) } :
        \/ StrIn(StrLower(t), low)
        \/ \E bare \in { StrReplace(low, " ", "") } :
              StrIn(StrReplace(StrLower(t), " ", ""), bare)

\* for each query the generator can leave in the state, the names of the
\* fixed list that occur in it
TablesOccurring ==
    { [sql_query |-> r.sql_query,
       tables    |-> { t \in { CitableTables[k] : k \in 1..Len(CitableTables) } :
                         OccursIn(t, r.sql_query) }] :
      r \in GeneratorResults }

\* citations that list the chunk ids before the tables
Citations_chunks_first(st) ==
    [k \in 1..Len(st.context) |-> st.context[k].id]
    \o (IF st.sql_query # ""
        THEN (CHOOSE r \in TableCitationsOf : r.sql_query = st.sql_query).citations
        ELSE <<>>)

\* citations of synthesizer_node, lines 121-130
Citations(st) ==
    (IF st.sql_query # ""
     THEN (CHOOSE r \in TableCitationsOf : r.sql_query = st.sql_query).citations
     ELSE <<>>)
    \o [k \in 1..Len(st.context) |-> st.context[k].id]

synthesizer_node(st, pred) ==
    [st EXCEPT !.final_answer = pred.final_answer,
               !.explanation  = pred.short_explanation,
               !.citations    = Citations(st)]

\* repair_node counting a repair twice
repair_node_double(st) ==
    [st EXCEPT !.repair_count = st.repair_count + 2,
               !.errors       = <<>>]

\* repair_node that does not clear errors
repair_node_keep_errors(st) ==
    [st EXCEPT !.repair_count = st.repair_count + 1]

\* a repair that also throws the failed query away
repair_node_reset_query(st) ==
    [st EXCEPT !.repair_count = st.repair_count + 1,
               !.errors       = <<>>,
               !.sql_query    = ""]

repair_node(st) ==
    [st EXCEPT !.repair_count = st.repair_count + 1,
               !.errors       = <<>>]

(***************************************************************************)
(* agent/graph_hybrid.py: edges                                            *)
(***************************************************************************)

route_strategy(st) == st.strategy

\* the branch table after router with every strategy sent to the retriever
RouterBranches_all_retrieve == [rag |-> "retriever", sql |-> "retriever", hybrid |-> "retriever"]

\* the branch table of the conditional edge after router, lines 183-187
RouterBranches == [rag |-> "retriever", sql |-> "planner", hybrid |-> "retriever"]

\* route_retriever that always continues to the planner
route_retriever_always_plan(st) == "planner"

route_retriever(st) == IF st.strategy = "rag" THEN "synthesizer" ELSE "planner"

\* check_execution that never asks for a repair
check_execution_never(st) == "synthesize"

\* check_execution with the cap off by one: a third repair is allowed
check_execution_cap3(st) ==
    IF Len(st.errors) > 0 /\ st.repair_count <= 2 THEN "repair" ELSE "synthesize"

\* check_execution without the cap: any error is repaired
check_execution_nocap(st) ==
    IF Len(st.errors) > 0 THEN "repair" ELSE "synthesize"

\* check_execution giving up after one repair
check_execution_cap1(st) ==
    IF Len(st.errors) > 0 /\ st.repair_count < 1 THEN "repair" ELSE "synthesize"

\* check_execution with "or" for "and"
check_execution_or(st) ==
    IF Len(st.errors) > 0 \/ st.repair_count < 2 THEN "repair" ELSE "synthesize"

check_execution(st) ==
    IF Len(st.errors) > 0 /\ st.repair_count < 2 THEN "repair" ELSE "synthesize"

\* the branch table of the conditional edge after executor, lines 210-213
ExecutorBranches == [repair |-> "repair", synthesize |-> "synthesizer"]

(***************************************************************************)
(* One invocation of the compiled graph on the initial state that          *)
(* process_questions builds for a question                                 *)
(***************************************************************************)

VARIABLES
    state,          \* the AgentState of the invocation
    node,           \* the node that runs next, "END" once the graph has ended
    trace,          \* the nodes that have run, in order
    pred_strategy,  \* the text the router's oracle call returned, None before
    attempts,       \* per run of sql_generator: the query, the validator's
                    \* verdict and the executor's error (None when it ran clean,
                    \* "pending" until the executor has run)
    questions,      \* process_questions: the question records read from the file
    responses,      \* what the oracle, the index and the database answer for
                    \* each question id
    results,        \* process_questions: the output records so far
    starts,         \* the initial_state each invocation so far was given
    finals,         \* how each invocation so far ended
    output_file,    \* the output file: whether it is written, and its lines
    arguments,      \* a single call of a function: its arguments
    returned        \* and what it returned, in a tuple that is empty before

batch_vars == << questions, responses, results, starts, finals, output_file >>

call_vars == << arguments, returned >>

vars == << state, node, trace, pred_strategy, attempts, batch_vars, call_vars >>

\* the output file before process_questions has opened it
NotWritten == [written |-> FALSE, lines |-> <<>>]

\* no batch is being processed
NoBatch ==
    /\ questions = <<>>
    /\ responses = <<>>
    /\ results = <<>>
    /\ starts = <<>>
    /\ finals = <<>>
    /\ output_file = NotWritten

\* no single call is being made
NoCall == arguments = None /\ returned = <<>>

\* More steps than any invocation takes; keeps the trace finite
MaxSteps == 13

\* initial_state of process_questions, lines 22-35
\* a state that starts with the query of the question before
initial_state_keeps_query(q) ==
    [question     |-> q.question,
     format_hint  |-> q.format_hint,
     strategy     |-> "",
     context      |-> <<>>,
     schema       |-> "",
     sql_query    |-> IF results = <<>> THEN "" ELSE results[Len(results)].sql,
     sql_result   |-> [columns |-> <<>>, rows |-> <<>>, error |-> None],
     final_answer |-> None,
     explanation  |-> "",
     citations    |-> <<>>,
     errors       |-> <<>>,
     repair_count |-> 0]

initial_state(q) ==
    [question     |-> q.question,
     format_hint  |-> q.format_hint,
     strategy     |-> "",
     context      |-> <<>>,
     schema       |-> "",
     sql_query    |-> "",
     sql_result   |-> [columns |-> <<>>, rows |-> <<>>, error |-> None],
     final_answer |-> None,
     explanation  |-> "",
     citations    |-> <<>>,
     errors       |-> <<>>,
     repair_count |-> 0]

Init ==
    /\ state \in { initial_state(q) : q \in Questions }
    /\ node = "router"
    /\ trace = <<>>
    /\ pred_strategy = None
    /\ attempts = <<>>
    /\ NoBatch
    /\ NoCall

Router ==
    /\ node = "router"
    /\ Len(trace) < MaxSteps
    /\ \E p \in RouterOutputs :
          /\ state' = router_node(state, p)
          /\ pred_strategy' = p
    /\ node' = RouterBranches[route_strategy(state')]
    /\ trace' = Append(trace, "router")
    /\ UNCHANGED << attempts, batch_vars, call_vars >>

RetrieverStep ==
    /\ node = "retriever"
    /\ Len(trace) < MaxSteps
    /\ \E sims \in Similarities : \E argsort \in ArgSorts(sims) :
          state' = retriever_node(state, sims, argsort)
    /\ node' = route_retriever(state')
    /\ trace' = Append(trace, "retriever")
    /\ UNCHANGED << pred_strategy, attempts, batch_vars, call_vars >>

Planner ==
    /\ node = "planner"
    /\ Len(trace) < MaxSteps
    /\ state' = planner_node(state)
    /\ node' = "sql_generator"
    /\ trace' = Append(trace, "planner")
    /\ UNCHANGED << pred_strategy, attempts, batch_vars, call_vars >>

SqlGenerator ==
    /\ node = "sql_generator"
    /\ Len(trace) < MaxSteps
    /\ \E g \in GeneratedSQL : \E order \in ColumnOrders :
          /\ state' = sql_generator_node(state, g, order)
          /\ \E r \in { GeneratorResult(g, order) } :
                attempts' = Append(attempts,
                   [sql_query |-> state'.sql_query,
                    valid     |-> r.validation_result.valid,
                    errors    |-> r.validation_result.errors,
                    error     |-> "pending"])
    /\ node' = "executor"
    /\ trace' = Append(trace, "sql_generator")
    /\ UNCHANGED << pred_strategy, batch_vars, call_vars >>

Executor ==
    /\ node = "executor"
    /\ Len(trace) < MaxSteps
    /\ state' = executor_node(state)
    /\ attempts' = [attempts EXCEPT ![Len(attempts)].error = state'.sql_result.error]
    /\ node' = ExecutorBranches[check_execution(state')]
    /\ trace' = Append(trace, "executor")
    /\ UNCHANGED << pred_strategy, batch_vars, call_vars >>

Repair ==
    /\ node = "repair"
    /\ Len(trace) < MaxSteps
    /\ state' = repair_node(state)
    /\ node' = "sql_generator"
    /\ trace' = Append(trace, "repair")
    /\ UNCHANGED << pred_strategy, attempts, batch_vars, call_vars >>

Synthesizer ==
    /\ node = "synthesizer"
    /\ Len(trace) < MaxSteps
    /\ \E pred \in SynthOutputs : state' = synthesizer_node(state, pred)
    /\ node' = "END"
    /\ trace' = Append(trace, "synthesizer")
    /\ UNCHANGED << pred_strategy, attempts, batch_vars, call_vars >>

Next ==
    \/ Router
    \/ RetrieverStep
    \/ Planner
    \/ SqlGenerator
    \/ Executor
    \/ Repair
    \/ Synthesizer

Spec == Init /\ [][Next]_vars

\* Each node returns (the oracle, the index and the database answer), so a
\* node that is due does run
FairSpec == Spec /\ WF_vars(Next)

\* no invocation is being stepped through
NoInvocation ==
    /\ state = None
    /\ node = None
    /\ trace = <<>>
    /\ pred_strategy = None
    /\ attempts = <<>>

(***************************************************************************)
(* A single call of SQLValidator.validate_sql on the schema of DbTables    *)
(***************************************************************************)

\* Queries with one table target left open. others: the further tables the
\* query reads; ctes: the names it declares in a WITH clause and reads.
TableTemplates ==
    { [prefix |-> "SELECT x.OrderID FROM ", suffix |-> " x",
       others |-> {}, ctes |-> {}],
      [prefix |-> "SELECT o.OrderID FROM Orders o JOIN ",
       suffix |-> " x ON o.OrderID = x.OrderID",
       others |-> {"Orders"}, ctes |-> {}],
      [prefix |-> "SELECT o.OrderID FROM Orders o, ", suffix |-> " x",
       others |-> {"Orders"}, ctes |-> {}],
      [prefix |-> "SELECT o.OrderID FROM Orders o WHERE o.OrderID IN (SELECT x.OrderID FROM ",
       suffix |-> " x)",
       others |-> {"Orders"}, ctes |-> {}],
      [prefix |-> "WITH recent AS (SELECT o.OrderID FROM Orders o) SELECT r.OrderID FROM recent r JOIN ",
       suffix |-> " x ON r.OrderID = x.OrderID",
       others |-> {"Orders"}, ctes |-> {"recent"}],
      [prefix |-> "SELECT x.Qty FROM ", suffix |-> " x",
       others |-> {}, ctes |-> {}] }

\* How the open target is written, and the table that names
TableTargets ==
    { [written |-> "Sales",               name |-> "Sales"],
      [written |-> "[Sales]",             name |-> "Sales"],
      [written |-> "\"Sales\"",           name |-> "Sales"],
      [written |-> "orderitems",          name |-> "orderitems"],
      [written |-> "Order",               name |-> "Order"],
      [written |-> "Orders",              name |-> "Orders"],
      [written |-> "products",            name |-> "products"],
      [written |-> "OrderDetails",        name |-> "OrderDetails"],
      [written |-> "orderdetails",        name |-> "orderdetails"],
      [written |-> "\"Order Details\"",   name |-> "Order Details"],
      [written |-> "[Order Details]",     name |-> "Order Details"] }

\* Queries that declare a name in a WITH clause and read from it
CteQueries ==
    { [prefix |-> "WITH t AS (SELECT 1 AS x) SELECT t.x FROM ", written |-> "t"],
      [prefix |-> "with t as(select 1 as x) select t.x from ", written |-> "t"],
      [prefix |-> "WITH Recent AS (SELECT o.OrderID FROM Orders o) SELECT r.OrderID FROM ",
       written |-> "recent r"],
      [prefix |-> "WITH RECURSIVE cnt AS (SELECT 1 AS n) SELECT c.n FROM ", written |-> "cnt c"],
      [prefix |-> "WITH a AS (SELECT 1 AS x), b AS (SELECT 2 AS y) SELECT a.x FROM a JOIN ",
       written |-> "b"],
      [prefix |-> "WITH sales\nAS\n(SELECT 1 AS x) SELECT s.x FROM Orders o JOIN ",
       written |-> "sales s"] }

\* the name a CteQueries target reads from: its first word
CteName(written) == SubSeq(written, 1, WordEnd(written, 1) - 1)

\* The calls of validate_sql that are made: the query in three parts, the
\* iteration order of the column set, the tables and the WITH names read
ValidatorCalls ==
    { [prefix |-> t.prefix, written |-> g.written, suffix |-> t.suffix,
       order |-> order, tables |-> t.others \cup { g.name }, ctes |-> t.ctes] :
      t \in TableTemplates, g \in TableTargets, order \in ColumnOrders }
    \cup
    { [prefix |-> q.prefix, written |-> q.written, suffix |-> "",
       order |-> order, tables |-> {}, ctes |-> { CteName(q.written) }] :
      q \in CteQueries, order \in ColumnOrders }

\* the query text of a call
QueryOf(call) == call.prefix \o call.written \o call.suffix

ValidatorInit ==
    /\ arguments \in ValidatorCalls
    /\ returned = <<>>
    /\ NoBatch
    /\ NoInvocation

ValidateSql ==
    /\ returned = <<>>
    /\ returned' = << validate_sql(QueryOf(arguments), arguments.order) >>
    /\ UNCHANGED << arguments, batch_vars >>
    /\ UNCHANGED << state, node, trace, pred_strategy, attempts >>

ValidatorSpec == ValidatorInit /\ [][ValidateSql]_vars

(***************************************************************************)
(* Calls of Retriever.search: the retriever holds a corpus, the query      *)
(* gives one similarity per chunk, numpy gives one of their argsorts       *)
(***************************************************************************)

\* Largest top_k of a call (one more than the largest corpus has chunks)
MaxTopK == 5

\* self.chunks after _load_and_chunk_docs: the chunks of the first n sections
\* found in docs_dir (none when the directory has no markdown file), for the
\* directory of Docs and for the one of NotesDocs
Corpora ==
    { SubSeq(chunks, 1, n) : n \in 0..Len(chunks) } \cup { ChunkDocs(NotesDocs) }

\* a call: the corpus, a similarity per chunk, an argsort of them, and top_k
SearchCalls ==
    UNION { UNION { { [corpus |-> c, sims |-> s, argsort |-> a, top_k |-> k] :
                        a \in ArgSorts(s), k \in 0..MaxTopK } :
                    s \in [1..Len(c) -> 0..MaxSim] } :
            c \in Corpora }

SearchInit ==
    /\ arguments \in SearchCalls
    /\ returned = <<>>
    /\ NoBatch
    /\ NoInvocation

Search ==
    /\ returned = <<>>
    /\ returned' = << search(arguments.corpus, arguments.sims,
                             arguments.argsort, arguments.top_k) >>
    /\ UNCHANGED << arguments, batch_vars >>
    /\ UNCHANGED << state, node, trace, pred_strategy, attempts >>

SearchSpec == SearchInit /\ [][Search]_vars

(***************************************************************************)
(* process_questions: the batch driver of run_agent_hybrid.py              *)
(***************************************************************************)

\* The records of the questions file
QuestionRecords ==
    { [id |-> "rag_policy", question |-> "What is the return policy?",
       format_hint |-> "str"],
      [id |-> "sql_revenue", question |-> "Total revenue in 1997",
       format_hint |-> "float"] }

MaxBatch == 3

\* The files of at most MaxBatch records; a file may hold a record twice
Batches == UNION { [1..n -> QuestionRecords] : n \in 0..MaxBatch }

\* The nodes that call the oracle; the call raises when it cannot be reached
RaisingNodes == { "router", "sql_generator", "synthesizer" }

\* str(e) of the exception of a failed oracle call
OracleError == "Connection error."

\* What sql_generator gets on its first, second and third run
SqlScripts ==
    { << [g |-> "SELECT o.OrderID FROM Orders o", order |-> Sorted(all_columns)],
         [g |-> "", order |-> Sorted(all_columns)],
         [g |-> "", order |-> Sorted(all_columns)] >>,
      << [g |-> "SELECT Total FROM Orders", order |-> Sorted(all_columns)],
         [g |-> "WITH t AS (SELECT 1 AS x) SELECT t.x FROM t",
          order |-> Reverse(Sorted(all_columns))],
         [g |-> "", order |-> Sorted(all_columns)] >>,
      << [g |-> "SELECT p.Name FROM Products p", order |-> Sorted(all_columns)],
         [g |-> "SELECT s.OrderID FROM Sales s", order |-> Sorted(all_columns)],
         [g |-> "SELECT Total FROM Orders", order |-> Reverse(Sorted(all_columns))] >> }

\* What the index answers
RetrievalScripts ==
    { [sims |-> << 2, 0, 1, 0 >>, argsort |-> << 2, 4, 3, 1 >>] }

\* What the oracle, the index and the database answer during one invocation:
\* pred.strategy, the similarities, the pred.sql_query of each run of
\* sql_generator, the synthesizer's prediction, and the node whose oracle call
\* raises (None when every call returns)
Scripts ==
    [strategy  : { "rag", "sql", "sql and rag" },
     retrieval : RetrievalScripts,
     sql       : SqlScripts,
     synth     : { [final_answer |-> "1", short_explanation |-> "From the query."] },
     raises    : RaisingNodes \cup { None }]

\* One step of app.invoke: node n runs on st and its outgoing edge picks the
\* next node; k counts the runs of sql_generator so far.
run_node(st, n, k, script) ==
    CASE n = "router" ->
           LET st2 == router_node(st, script.strategy)
           IN [state |-> st2, node |-> RouterBranches[route_strategy(st2)], k |-> k]
      [] n = "retriever" ->
           LET st2 == retriever_node(st, script.retrieval.sims,
                                     script.retrieval.argsort)
           IN [state |-> st2, node |-> route_retriever(st2), k |-> k]
      [] n = "planner" ->
           [state |-> planner_node(st), node |-> "sql_generator", k |-> k]
      [] n = "sql_generator" ->
           [state |-> sql_generator_node(st, script.sql[k + 1].g,
                                         script.sql[k + 1].order),
            node |-> "executor", k |-> k + 1]
      [] n = "executor" ->
           LET st2 == executor_node(st)
           IN [state |-> st2, node |-> ExecutorBranches[check_execution(st2)], k |-> k]
      [] n = "repair" ->
           [state |-> repair_node(st), node |-> "sql_generator", k |-> k]
      [] n = "synthesizer" ->
           [state |-> synthesizer_node(st, script.synth), node |-> "END", k |-> k]

\* app.invoke from node n on, run to END; an exception of a node leaves
\* invoke. (The set binds each step's result, so it is computed once.)
RECURSIVE RunFrom(_, _, _, _)
RunFrom(st, n, k, script) ==
    IF n = "END"
    THEN [raised |-> FALSE, message |-> "", state |-> st]
    ELSE IF script.raises = n
    THEN [raised |-> TRUE, message |-> OracleError, state |-> None]
    ELSE CHOOSE run \in { RunFrom(step.state, step.node, step.k, script) :
                            step \in { run_node(st, n, k, script) } } : TRUE

invoke(st, script) == RunFrom(st, "router", 0, script)

\* the record of a question whose invocation raised ...
output_raised_as_failed(q, run) ==
    IF run.raised
    THEN [id           |-> q.id,
          final_answer |-> "Error processing request.",
          sql          |-> "",
          confidence   |-> "0.4",
          explanation  |-> run.message,
          citations    |-> <<>>]
    ELSE [id           |-> q.id,
          final_answer |-> run.state.final_answer,
          sql          |-> run.state.sql_query,
          confidence   |-> IF run.state.errors = <<>> THEN "0.8" ELSE "0.4",
          explanation  |-> run.state.explanation,
          citations    |-> run.state.citations]

\* ... or without the exception text
output_no_text(q, run) ==
    IF run.raised
    THEN [id           |-> q.id,
          final_answer |-> "Error processing request.",
          sql          |-> "",
          confidence   |-> "0.0",
          explanation  |-> "",
          citations    |-> <<>>]
    ELSE [id           |-> q.id,
          final_answer |-> run.state.final_answer,
          sql          |-> run.state.sql_query,
          confidence   |-> IF run.state.errors = <<>> THEN "0.8" ELSE "0.4",
          explanation  |-> run.state.explanation,
          citations    |-> run.state.citations]

\* the output record of question q; confidence as json.dumps writes it
output(q, run) ==
    IF run.raised
    THEN [id           |-> q.id,
          final_answer |-> "Error processing request.",
          sql          |-> "",
          confidence   |-> "0.0",
          explanation  |-> run.message,
          citations    |-> <<>>]
    ELSE [id           |-> q.id,
          final_answer |-> run.state.final_answer,
          sql          |-> run.state.sql_query,
          confidence   |-> IF run.state.errors = <<>> THEN "0.8" ELSE "0.4",
          explanation  |-> run.state.explanation,
          citations    |-> run.state.citations]

BatchInit ==
    /\ questions \in Batches
    /\ responses \in [{ q.id : q \in QuestionRecords } -> Scripts]
    /\ results = <<>>
    /\ starts = <<>>
    /\ finals = <<>>
    /\ output_file = NotWritten
    /\ NoInvocation
    /\ NoCall

\* one iteration of the loop over the questions
ProcessQuestion ==
    /\ ~ output_file.written
    /\ Len(results) < Len(questions)
    /\ \E q \in { questions[Len(results) + 1] } :
       \E st \in { initial_state(q) } :
       \E run \in { invoke(st, responses[q.id]) } :
          /\ results' = Append(results, output(q, run))
          /\ starts' = Append(starts, st)
          /\ finals' = Append(finals, run)
    /\ UNCHANGED << questions, responses, output_file >>
    /\ UNCHANGED << state, node, trace, pred_strategy, attempts, call_vars >>

\* after the loop the records are written, one line each
WriteResults ==
    /\ ~ output_file.written
    /\ Len(results) = Len(questions)
    /\ output_file' = [written |-> TRUE, lines |-> results]
    /\ UNCHANGED << questions, responses, results, starts, finals >>
    /\ UNCHANGED << state, node, trace, pred_strategy, attempts, call_vars >>

BatchNext ==
    \/ ProcessQuestion
    \/ WriteResults

BatchSpec == BatchInit /\ [][BatchNext]_vars

\* the loop body and the write return
FairBatchSpec == BatchSpec /\ WF_vars(BatchNext)

(***************************************************************************)
(* Properties                                                              *)
(***************************************************************************)

\* the number of runs of node n so far
Runs(n) == Cardinality({ i \in 1..Len(trace) : trace[i] = n })

\* the node that ran last, None before the first
LastRun == IF Len(trace) = 0 THEN None ELSE trace[Len(trace)]

\* C1: in every invocation the sql_generator node runs at most 3 times,
\* whatever the strategy and however the attempts fail.
C1_GeneratorAtMostThrice == Runs("sql_generator") <= 3

\* an invocation whose three attempts all failed
C1_Witness ==
    /\ node = "END"
    /\ Runs("sql_generator") = 3
    /\ Len(state.errors) > 0

\* C2: when every node returns, every invocation runs the synthesizer and
\* then reaches the terminal state; none is stuck or loops forever.
C2_ReachesEndAfterSynthesizer == <>(node = "END" /\ LastRun = "synthesizer")

\* an invocation that ended although both repairs were used up on errors
C2_Witness ==
    /\ node = "END"
    /\ LastRun = "synthesizer"
    /\ Runs("repair") = 2
    /\ Len(state.errors) > 0

\* C3: repair_count stays within 0..2, only the repair node changes it, by
\* exactly +1, and it never decreases.
C3_RepairCountBounded ==
    /\ [](state.repair_count \in 0..2)
    /\ [][state'.repair_count # state.repair_count
            => /\ node = "repair"
               /\ state'.repair_count = state.repair_count + 1]_vars

\* the second repair has run
C3_Witness == state.repair_count = 2 /\ LastRun = "repair"

\* C4 as stated: the synthesizer is only ever entered with errors empty.
C4_SynthesizerEnteredWithoutErrors ==
    node = "synthesizer" => Len(state.errors) = 0

\* C4, amended: the synthesizer is entered with errors empty, or with the
\* errors of the last attempt once repair_count has reached 2.
C4_SynthesizerEnteredCleanOrExhausted ==
    node = "synthesizer" => (Len(state.errors) = 0 \/ state.repair_count = 2)

\* the synthesizer is due after an attempt that ran clean
C4_Witness ==
    /\ node = "synthesizer"
    /\ LastRun = "executor"
    /\ Len(state.errors) = 0
    /\ state.repair_count = 1

\* C5: after the executor the next node is repair exactly when errors is
\* non-empty and repair_count < 2, otherwise the synthesizer; repair is never
\* entered with errors empty or repair_count >= 2.
C5_ExecutorRouting ==
    /\ [][node = "executor"
            => node' = IF Len(state'.errors) > 0 /\ state'.repair_count < 2
                       THEN "repair" ELSE "synthesizer"]_vars
    /\ [](node = "repair" => Len(state.errors) > 0 /\ state.repair_count < 2)

\* repair is due for the second time
C5_Witness ==
    /\ node = "repair"
    /\ LastRun = "executor"
    /\ state.repair_count = 1

\* attempt cycles: (sql_generator, executor) followed by k times
\* (repair, sql_generator, executor)
RECURSIVE RepairCycles(_)
RepairCycles(k) ==
    IF k = 0 THEN << "sql_generator", "executor" >>
    ELSE RepairCycles(k - 1) \o << "repair", "sql_generator", "executor" >>

\* the complete node sequences of a strategy
PathsOf(strategy) ==
    IF strategy = "rag" THEN { << "router", "retriever", "synthesizer" >> }
    ELSE IF strategy = "sql"
    THEN { << "router", "planner" >> \o RepairCycles(k) \o << "synthesizer" >> : k \in 0..2 }
    ELSE { << "router", "retriever", "planner" >> \o RepairCycles(k) \o << "synthesizer" >> : k \in 0..2 }

IsPrefix(a, b) == Len(a) <= Len(b) /\ SubSeq(b, 1, Len(a)) = a

\* C6: once the router has set the strategy, the nodes visited are those of
\* the strategy's path and no other: router, planner, attempts for sql (no
\* retriever, context empty), router, retriever, planner, attempts for hybrid,
\* exactly router, retriever, synthesizer for rag.
C6_PathFollowsStrategy ==
    Len(trace) > 0 =>
        /\ state.strategy \in {"sql", "rag", "hybrid"}
        /\ \E path \in PathsOf(state.strategy) :
              /\ IsPrefix(trace, path)
              /\ node = IF Len(trace) = Len(path) THEN "END" ELSE path[Len(trace) + 1]
        /\ state.strategy = "sql" => Runs("retriever") = 0 /\ state.context = <<>>

\* a hybrid invocation that went through the retriever and one repair
C6_Witness ==
    /\ node = "END"
    /\ state.strategy = "hybrid"
    /\ Len(state.context) > 0
    /\ Runs("repair") = 1

\* C7: in a rag invocation sql_generator, executor and repair never run,
\* sql_query is empty in the final state, and every citation is the id of a
\* retrieved chunk.
C7_RagRunsNoSQL ==
    state.strategy = "rag" =>
        /\ Runs("sql_generator") = 0 /\ Runs("executor") = 0 /\ Runs("repair") = 0
        /\ node = "END" =>
              /\ state.sql_query = ""
              /\ \A i \in 1..Len(state.citations) :
                    \E k \in 1..Len(state.context) : state.citations[i] = state.context[k].id

\* a finished rag invocation that cites chunks
C7_Witness ==
    /\ node = "END"
    /\ state.strategy = "rag"
    /\ Len(state.citations) = 3

\* the oracle texts paired with the strategy the keyword rule gives them
KeywordStrategy ==
    { << p, LET t == Strip(StrLower(p))
                has(w) == \E i \in 1..Len(t) :
                             /\ i + Len(w) - 1 <= Len(t)
                             /\ \A k \in 1..Len(w) : Ch(t, i + k - 1) = Ch(w, k)
            IN CASE has("sql") /\ has("rag") -> "hybrid"
                 [] has("sql") /\ ~ has("rag") -> "sql"
                 [] OTHER -> "rag" >> : p \in RouterOutputs }

\* C8: the router sets strategy to hybrid if the lower-cased, trimmed text
\* holds both "sql" and "rag", else to sql if it holds "sql", else to rag; the
\* result is one of the three and unclassifiable text gives rag.
C8_RouterKeywordRule ==
    pred_strategy # None =>
        /\ << pred_strategy, state.strategy >> \in KeywordStrategy
        /\ state.strategy \in {"sql", "rag", "hybrid"}

\* the router has run on a text that names no strategy
C8_Witness ==
    /\ pred_strategy = "unknown"
    /\ LastRun = "router"
    /\ state.strategy = "rag"

\* the oracle texts that are exactly a strategy name, up to case and
\* surrounding whitespace, paired with that name
ExactNames ==
    { << p, Strip(StrLower(p)) >> :
      p \in { q \in RouterOutputs : Strip(StrLower(q)) \in {"sql", "rag", "hybrid"} } }

\* C9: when the oracle's text is exactly sql, rag or hybrid (any case, any
\* surrounding whitespace) the router sets strategy to that name.
C9_ExactNameIsKept ==
    \A e \in ExactNames : pred_strategy = e[1] => state.strategy = e[2]

\* queries that reference a column no table has: through an alias (the
\* validator reports it), bare (only the engine reports it), and a column of
\* a CTE (only the validator reports it)
MissingColumnQueries ==
    { "SELECT p.Name FROM Products p",
      "SELECT Total FROM Orders",
      "WITH t AS (SELECT 1 AS x) SELECT t.x FROM t" }

\* C10: when the first generated SQL references a column of no table and the
\* regenerated SQL validates and executes cleanly, repair runs exactly once,
\* sql_generator twice, and the final errors is empty.
C10_OneRepairForMissingColumn ==
    (/\ node = "END"
     /\ state.strategy \in {"sql", "hybrid"}
     /\ Len(attempts) >= 1
     /\ attempts[1].sql_query \in MissingColumnQueries)
        => /\ Len(attempts) >= 2
           /\ (attempts[2].valid /\ ~ Truthy(attempts[2].error))
                 => /\ Runs("repair") = 1
                    /\ state.repair_count = 1
                    /\ Runs("sql_generator") = 2
                    /\ Len(state.errors) = 0

\* the bare column failed in the engine only, and the second query was good
C10_Witness ==
    /\ node = "END"
    /\ Len(attempts) = 2
    /\ attempts[1].sql_query = "SELECT Total FROM Orders"
    /\ attempts[1].valid
    /\ attempts[2].valid /\ ~ Truthy(attempts[2].error)
    /\ state.repair_count = 1
    /\ Len(state.errors) = 0

\* C11: when the database layer raises while running the current sql_query,
\* the executor stores sql_result with empty columns, empty rows and the
\* exception's message as error, sets errors to the one-element list holding
\* that message, and the workflow goes on to repair or to the synthesizer.
C11_ExecutionExceptionRecorded ==
    (/\ LastRun = "executor"
     /\ SqliteEngine(state.sql_query).exception # None)
        => LET message == SqliteEngine(state.sql_query).exception
           IN  /\ state.sql_result =
                     [columns |-> <<>>, rows |-> <<>>, error |-> message]
               /\ state.errors = << message >>
               /\ node \in {"repair", "synthesizer"}

\* the fields of the state that repair_node does not return
RepairFrame ==
    { "question", "format_hint", "strategy", "context", "schema", "sql_query",
      "sql_result", "final_answer", "explanation", "citations" }

\* C12: each run of repair raises repair_count by exactly 1, empties errors,
\* leaves every other field of the state as it was, and is followed by
\* sql_generator.
C12_RepairEffect ==
    [][/\ node = "repair"
          => /\ state'.repair_count = state.repair_count + 1
             /\ state'.errors = <<>>
             /\ \A f \in RepairFrame : state'[f] = state[f]
             /\ node' = "sql_generator"
       /\ LastRun = "repair" => LastRun' = "sql_generator"]_vars

\* the second repair has run on a state that holds a query, a failed result
\* and errors, and sql_generator has run after it
C12_Witness ==
    /\ Len(trace) >= 2
    /\ trace[Len(trace) - 1] = "repair"
    /\ LastRun = "sql_generator"
    /\ state.repair_count = 2
    /\ Truthy(state.sql_result.error)

\* the fields of the state that only synthesizer_node returns
SynthesizerFields == { "final_answer", "explanation", "citations" }

\* C16: the router runs exactly once and first, strategy changes in that run
\* only; the synthesizer runs exactly once and last, final_answer, explanation
\* and citations change in that run only.
C16_RouterFirstSynthesizerLast ==
    /\ [](/\ Len(trace) >= 1 => trace[1] = "router"
          /\ Runs("router") <= 1
          /\ Runs("synthesizer") <= 1
          /\ Runs("synthesizer") = 1 => (LastRun = "synthesizer" /\ node = "END")
          /\ node = "END" => (Runs("router") = 1 /\ Runs("synthesizer") = 1))
    /\ [][/\ state'.strategy # state.strategy => node = "router"
          /\ (\E f \in SynthesizerFields : state'[f] # state[f])
                => node = "synthesizer"
          /\ node # "router" => state.strategy \in {"sql", "rag", "hybrid"}]_vars

\* a hybrid invocation with two repairs has ended with an answer
C16_Witness ==
    /\ node = "END"
    /\ state.strategy = "hybrid"
    /\ Runs("repair") = 2
    /\ state.final_answer # None
    /\ Len(state.citations) > 0

\* the questions whose loop iteration is over
Done == 1..Len(results)

\* C13: a record's confidence is 0.8 exactly when the invocation completed
\* with errors empty, 0.4 exactly when it completed with errors non-empty,
\* 0.0 exactly when it raised; there is no other confidence.
C13_ConfidenceByOutcome ==
    \A i \in Done :
       /\ results[i].confidence \in {"0.8", "0.4", "0.0"}
       /\ results[i].confidence = "0.8"
             <=> (~ finals[i].raised /\ Len(finals[i].state.errors) = 0)
       /\ results[i].confidence = "0.4"
             <=> (~ finals[i].raised /\ Len(finals[i].state.errors) > 0)
       /\ results[i].confidence = "0.0" <=> finals[i].raised

\* one batch has seen a run that kept its errors and a run that raised
C13_Witness ==
    /\ Len(results) = 3
    /\ results[1].confidence = "0.4" /\ finals[1].state.repair_count = 2
    /\ results[2].confidence = "0.0" /\ finals[2].raised
    /\ results[3].confidence = "0.4"

\* C14: whichever invocations raise, every question is processed and the
\* output holds exactly one record per question, in input order and with the
\* question's id; the record of a raising question has confidence 0.0, empty
\* sql, empty citations and the exception text as explanation.
C14_OneRecordPerQuestion ==
    /\ [](/\ Len(results) <= Len(questions)
          /\ \A i \in Done :
                /\ results[i].id = questions[i].id
                /\ finals[i].raised
                      => /\ results[i].confidence = "0.0"
                         /\ results[i].sql = ""
                         /\ results[i].citations = <<>>
                         /\ results[i].explanation = finals[i].message
          /\ output_file.written
                => /\ Len(output_file.lines) = Len(questions)
                   /\ output_file.lines = results)
    /\ <>(output_file.written)

\* the first question raised, the later ones were processed and written
C14_Witness ==
    /\ output_file.written
    /\ Len(output_file.lines) = 3
    /\ finals[1].raised
    /\ ~ finals[2].raised
    /\ finals[3].raised
    /\ output_file.lines[2].confidence = "0.8"

\* C15: every invocation starts from a fresh state, and two occurrences of a
\* question in the batch, which get the same responses, get the same record
\* whatever was processed before each of them.
C15_QuestionsIndependent ==
    /\ \A i \in Done :
          /\ starts[i].question = questions[i].question
          /\ starts[i].format_hint = questions[i].format_hint
          /\ starts[i].strategy = ""
          /\ starts[i].context = <<>>
          /\ starts[i].sql_query = ""
          /\ starts[i].errors = <<>>
          /\ starts[i].repair_count = 0
    /\ \A i, j \in Done :
          questions[i].id = questions[j].id => results[i] = results[j]

\* a question was answered cleanly as the first of the batch and again after
\* a question that used up its repairs and kept its errors
C15_Witness ==
    /\ Len(results) = 3
    /\ questions[1] = questions[3]
    /\ questions[2] # questions[1]
    /\ results[1].confidence = "0.8"
    /\ results[1].sql = ""
    /\ results[3].confidence = "0.8"
    /\ ~ finals[2].raised
    /\ finals[2].state.repair_count = 2
    /\ Len(finals[2].state.errors) > 0

\* the errors validate_sql returned in the call
ReturnedErrors == { returned[1].errors[k] : k \in 1..Len(returned[1].errors) }

\* C17: when the query reads a table that matches no schema table under the
\* three strategies, validate_sql returns valid = false and an error that
\* names that table.
C17_MissingTableReported ==
    returned # <<>> =>
        \A t \in arguments.tables :
            ~ TableMatches(t)
               => /\ ~ returned[1].valid
                  /\ \E e \in ReturnedErrors : StrIn("Table '" \o t \o "'", e)

\* The spellings of the table "Order Details" as a FROM/JOIN target; the name
\* with the space is quoted, as SQL requires of it
OrderDetailsSpellings ==
    { "OrderDetails", "orderdetails", "\"Order Details\"", "[Order Details]" }

\* C18: against the schema with the table Order Details, a query whose target
\* is spelled OrderDetails, orderdetails or Order Details gets no table error
\* and the same result for every spelling.
C18_SpellingsValidateAlike ==
    (returned # <<>> /\ arguments.written \in OrderDetailsSpellings)
        => /\ \A e \in ReturnedErrors : ~ StrIn("does not exist in schema", e)
           /\ \A spelling \in OrderDetailsSpellings :
                 validate_sql(arguments.prefix \o spelling \o arguments.suffix,
                              arguments.order) = returned[1]

\* a join with the quoted name was accepted
C18_Witness ==
    /\ returned # <<>>
    /\ arguments.written = "\"Order Details\""
    /\ arguments.prefix = "SELECT o.OrderID FROM Orders o JOIN "
    /\ returned[1].valid

\* C19: a name declared by WITH name AS (...) and read after FROM or JOIN
\* gets no 'does not exist' error, though the schema has no such table.
C19_CteNamesNotFlagged ==
    returned # <<>> =>
        \A c \in arguments.ctes :
            /\ ~ TableMatches(c)
            /\ \A e \in ReturnedErrors :
                  ~ StrIn("Table '" \o c \o "' does not exist", e)

\* the second of two names of one WITH clause was read after JOIN
C19_Witness ==
    /\ returned # <<>>
    /\ arguments.ctes = { "b" }
    /\ \A e \in ReturnedErrors : ~ StrIn("does not exist in schema", e)

\* the similarities of the call in descending order
SortedSims ==
    [ i \in 1..Len(arguments.sims) |->
        arguments.sims[arguments.argsort[Len(arguments.sims) - i + 1]] ]

\* how many of the top_k highest similarities are positive
TopPositive ==
    Cardinality({ i \in 1..Len(arguments.sims) :
                    i <= arguments.top_k /\ SortedSims[i] > 0 })

\* C20: for every corpus, query and top_k >= 0, search returns at most top_k
\* chunks: those of the top_k highest similarities with the ones <= 0
\* removed, each with score > 0; nothing when the corpus is empty or no
\* similarity is positive.
C20_SearchTopKPositive ==
    returned # <<>> =>
        LET found == returned[1]
        IN /\ Len(found) <= arguments.top_k
           /\ Len(found) = TopPositive
           /\ \A i \in 1..Len(found) :
                 /\ found[i].score > 0
                 /\ found[i].score = SortedSims[i]
                 /\ \E idx \in 1..Len(arguments.corpus) :
                       /\ arguments.corpus[idx].id = found[i].id
                       /\ arguments.sims[idx] = found[i].score
           /\ \A i, j \in 1..Len(found) : i # j => found[i].id # found[j].id
           /\ (arguments.corpus = <<>> \/ \A i \in 1..Len(arguments.sims) :
                                             arguments.sims[i] = 0)
                 => found = <<>>

\* C21: for every corpus and query, the sequence search returns is ordered
\* by non-increasing score and holds no chunk id twice.
C21_SearchSortedNoDuplicateIds ==
    returned # <<>> =>
        LET found == returned[1]
        IN /\ \A i \in 1..(Len(found) - 1) : found[i].score >= found[i + 1].score
           /\ \A i, j \in 1..Len(found) : i # j => found[i].id # found[j].id

\* the place of a name in the fixed list
TablePlace(name) == CHOOSE k \in 1..Len(CitableTables) : CitableTables[k] = name

\* C22: the citations the synthesizer writes are the names of the fixed list
\* Orders, Order Details, Products, Customers that occur in sql_query (only
\* when sql_query is non-empty), in the list's order, followed by the id of
\* every chunk of context in context order, and nothing else.
C22_CitationsExact ==
    LastRun = "synthesizer" =>
        LET named == Len(state.citations) - Len(state.context)
            occurring == IF state.sql_query = "" THEN {}
                         ELSE (CHOOSE r \in TablesOccurring :
                                  r.sql_query = state.sql_query).tables
        IN /\ named >= 0
           /\ \A k \in 1..Len(state.context) :
                 state.citations[named + k] = state.context[k].id
           /\ { state.citations[i] : i \in 1..named } = occurring
           /\ \A i, j \in 1..named :
                 i < j => TablePlace(state.citations[i]) < TablePlace(state.citations[j])

\* a hybrid answer that cites Orders and Order Details for a query written
\* with OrderDetails, and then its three chunks
C22_Witness ==
    /\ LastRun = "synthesizer"
    /\ Len(state.context) = 3
    /\ Len(state.citations) = 5
    /\ state.citations[1] = "Orders"
    /\ state.citations[2] = "Order Details"
    /\ state.citations[3] = state.context[1].id

\* C23: the executor runs after every run of sql_generator, also after a
\* failed validation.  After the executor, errors is the one-element list with
\* the execution error when execution failed, and the attempt's validation
\* errors when it succeeded; an attempt that executes but was rejected by the
\* validator has non-empty errors and goes to repair while repair_count < 2.
C23_ExecutorAfterEveryAttempt ==
    /\ LastRun = "sql_generator" => node = "executor"
    /\ LastRun = "executor" =>
          LET attempt == attempts[Len(attempts)]
              raised  == SqliteEngine(state.sql_query).exception
          IN /\ raised # None => state.errors = << raised >>
             /\ raised = None => state.errors = attempt.errors
             /\ (raised = None /\ ~ attempt.valid /\ state.repair_count < 2)
                   => (state.errors # <<>> /\ node = "repair")

\* C24: in the final state of a completed invocation errors is non-empty
\* only if repair_count = 2 and the third SQL attempt failed validation or
\* execution; a rag invocation ends with errors empty and repair_count 0.
\* So the record of the invocation has confidence 0.4 only after both
\* repairs were used.
C24_FinalErrorsOnlyAfterTwoRepairs ==
    node = "END" =>
        /\ state.errors # <<>> =>
              /\ state.repair_count = 2
              /\ Len(attempts) = 3
              /\ ~ attempts[3].valid \/ Truthy(attempts[3].error)
        /\ state.strategy = "rag" =>
              (state.errors = <<>> /\ state.repair_count = 0)
        /\ \A q \in QuestionRecords :
              output(q, [raised |-> FALSE, message |-> "", state |-> state]).confidence = "0.4"
                 => (state.repair_count = 2 /\ Runs("repair") = 2)

\* the third attempt ran in the engine but was rejected by the validator,
\* and the invocation ended with its errors
C24_Witness ==
    /\ node = "END"
    /\ state.errors # <<>>
    /\ state.repair_count = 2
    /\ Len(attempts) = 3
    /\ ~ attempts[3].valid
    /\ attempts[3].error = None

\* C25: errors is empty on every entry to sql_generator, the first and each
\* one after a repair, so the errors check_execution reads after the executor
\* were all written by the validation or the execution of the current attempt.
C25_GeneratorEnteredWithoutErrors ==
    /\ node = "sql_generator" => state.errors = <<>>
    /\ LastRun = "executor" =>
          LET attempt == attempts[Len(attempts)]
          IN \A k \in 1..Len(state.errors) :
                \/ state.errors[k] = attempt.error
                \/ \E j \in 1..Len(attempt.errors) : attempt.errors[j] = state.errors[k]

\* the generator is entered for the third time, after two attempts that
\* failed in different ways
C25_Witness ==
    /\ node = "sql_generator"
    /\ LastRun = "repair"
    /\ state.repair_count = 2
    /\ Len(attempts) = 2
    /\ ~ attempts[1].valid
    /\ attempts[2].valid /\ Truthy(attempts[2].error)
    /\ state.errors = <<>>

====
